---- MODULE Spec2Model ----
(***************************************************************************)
(* Model of ruukh's reconciliation core.                                   *)
(*                                                                         *)
(*  - src/src/lib.rs: App::mount, app_message_channel, MessageReceiver,    *)
(*    MessageSender (the update scheduler).  Specification SchedSpec, and  *)
(*    FairSchedSpec with the event loop's fairness.                        *)
(*  - src/dom_ruukh/src/vcomponent.rs: ComponentWrapper and its            *)
(*    ComponentManager implementation (render_walk, patch, remove, node).  *)
(*    Specification DomSpec (components whose render nests no component)   *)
(*    and NestSpec (with one component whose render nests another).        *)
(*  - Spec: either half.                                                   *)
(*                                                                         *)
(* The two files belong to different crates: lib.rs drives the wrapper of  *)
(* src/src/vdom/vcomponent.rs (absent), dom_ruukh's wrapper is driven by   *)
(* the tree-walking code of dom_ruukh (absent).  Each specification leaves *)
(* the other half's variables at their initial values.                     *)
(***************************************************************************)
EXTENDS Naturals, Sequences, FiniteSets

VARIABLES
    \* ---- scheduler (lib.rs) ----
    appPc,        \* position of the App: "new", "first_render", "idle", "handling", "panicked"
    is_queued,    \* the Shared<bool> of app_message_channel
    port,         \* number of messages posted on port1 and not yet delivered on port2
    onmessage,    \* TRUE once react_on_message has installed the closure on port2
    root,         \* the root manager as the scheduler sees it: [mounted, dirty, renders]
    sched,        \* history of the scheduler: [reacts, first, late, posted, wakes,
                  \* passes, inPass, pending, last]
    \* ---- component wrapper (vcomponent.rs) ----
    wr,           \* wrapper slot -> ComponentWrapper fields
    inst,         \* sequence of the component instances built by COMP::init so far
    dom,          \* children of the parent node, in document order
    op,           \* the protocol call in progress or last finished
    log           \* hook and document events of that call, in order

schedVars == <<appPc, is_queued, port, onmessage, root, sched>>
domVars   == <<wr, inst, dom, op, log>>
vars      == <<appPc, is_queued, port, onmessage, root, sched,
               wr, inst, dom, op, log>>

\* An Option<T> is the empty set (None) or a singleton (Some(v)).
Some(v) == {v}
Unwrap(o) == CHOOSE v \in o : TRUE

(***************************************************************************)
(* Bounds of the model.                                                    *)
(***************************************************************************)
\* do_react calls explored in one behaviour
MaxReacts == 4
\* root render passes explored in one behaviour
MaxPasses == 3
\* protocol calls (patch, render_walk, remove) made by the host in one behaviour
MaxCalls == 3
\* nested render_walk invocations the call stack holds before it overflows
StackLimit == 2


(***************************************************************************)
(* Scheduler: src/src/lib.rs                                               *)
(***************************************************************************)
AppPcs == {"new", "first_render", "idle", "handling", "panicked"}

\* The state a MessageSender and the components it is handed to can touch.
SenderView == [is_queued |-> is_queued, port |-> port, root |-> root]

\* A do_react that posts without looking at the flag.
do_react_NoGuard(s) ==
    [s EXCEPT !.is_queued = TRUE, !.port = s.port + 1]

\* A do_react that posts but leaves the flag as it was.
do_react_NoSet(s) ==
    IF ~s.is_queued THEN [s EXCEPT !.port = s.port + 1] ELSE s

\* A do_react that walks the root itself instead of posting a message.
do_react_Sync(s) ==
    [s EXCEPT !.root = [s.root EXCEPT !.dirty = FALSE, !.renders = s.root.renders + 1]]

\* MessageSender::do_react, lib.rs 234-243: post one null message unless one
\* is already queued.
do_react(s) ==
    IF ~s.is_queued
    THEN [s EXCEPT !.is_queued = TRUE, !.port = s.port + 1]
    ELSE s

\* The root manager's render_walk as lib.rs calls it (vdom/vcomponent.rs is
\* absent): the first walk mounts and renders, a later walk re-renders a dirty
\* root and leaves a clean one alone.
RootRenderWalk(r) ==
    IF ~r.mounted
    THEN [r EXCEPT !.mounted = TRUE, !.dirty = FALSE, !.renders = r.renders + 1]
    ELSE IF r.dirty
         THEN [r EXCEPT !.dirty = FALSE, !.renders = r.renders + 1]
         ELSE r

SchedInit ==
    /\ appPc = "new"
    /\ is_queued = FALSE
    /\ port = 0
    /\ onmessage = FALSE
    /\ root = [mounted |-> FALSE, dirty |-> FALSE, renders |-> 0]
    /\ sched = [reacts |-> 0, first |-> 0, late |-> 0, posted |-> 0, wakes |-> 0,
                passes |-> 0, inPass |-> FALSE, pending |-> FALSE, last |-> "none"]

\* A channel whose flag starts out set.
app_message_channel_Queued ==
    /\ is_queued' = TRUE
    /\ port' = 0
    /\ onmessage' = FALSE

\* app_message_channel, lib.rs 182-195: a fresh channel and a flag set to false.
app_message_channel ==
    /\ is_queued' = FALSE
    /\ port' = 0
    /\ onmessage' = FALSE

\* App::mount, lib.rs 148-158: the channel is created and the first render_walk
\* of the root manager starts.
Mount ==
    /\ appPc = "new"
    /\ app_message_channel
    /\ root' = RootRenderWalk(root)
    /\ appPc' = "first_render"
    /\ sched' = [sched EXCEPT !.passes = sched.passes + 1, !.last = "mount"]
    /\ UNCHANGED domVars

\* App::mount, lib.rs 156-165: the first render returned Ok, so unwrap passes
\* and react_on_message (lib.rs 206-219) installs the closure on port2.
FirstRenderOk ==
    /\ appPc = "first_render"
    /\ onmessage' = TRUE
    /\ appPc' = "idle"
    /\ sched' = [sched EXCEPT !.last = "first_render_ok"]
    /\ UNCHANGED <<is_queued, port, root>>
    /\ UNCHANGED domVars

\* App::mount, lib.rs 156-158: the first render returned Err and unwrap panics;
\* react_on_message is never reached.
FirstRenderErr ==
    /\ appPc = "first_render"
    /\ appPc' = "panicked"
    /\ sched' = [sched EXCEPT !.last = "first_render_err"]
    /\ UNCHANGED <<is_queued, port, onmessage, root>>
    /\ UNCHANGED domVars

\* The history kept about one do_react call that turned view s into view t.
Reacted(s, t, name) ==
    [sched EXCEPT !.reacts = sched.reacts + 1,
                  !.first = IF appPc = "first_render" THEN sched.first + 1 ELSE sched.first,
                  !.late = IF sched.wakes > 0 THEN sched.late + 1 ELSE sched.late,
                  !.posted = sched.posted + (t.port - s.port),
                  !.inPass = sched.inPass \/ appPc = "handling",
                  !.pending = TRUE,
                  !.last = name]

\* A component (or an event listener it registered) calls do_react on its
\* clone of the sender.  The sender exists from the first render on.
DoReact ==
    /\ appPc # "new"
    /\ sched.reacts < MaxReacts
    /\ LET s == SenderView
           t == do_react(s)
       IN /\ is_queued' = t.is_queued
          /\ port' = t.port
          /\ root' = t.root
          /\ sched' = Reacted(s, t, "do_react")
    /\ UNCHANGED <<appPc, onmessage>>
    /\ UNCHANGED domVars

\* A state setter of the mounted root component: the state becomes dirty and
\* the setter notifies the app through do_react.
SetState ==
    /\ appPc # "new"
    /\ root.mounted
    /\ sched.reacts < MaxReacts
    /\ LET s == [SenderView EXCEPT !.root = [root EXCEPT !.dirty = TRUE]]
           t == do_react(s)
       IN /\ is_queued' = t.is_queued
          /\ port' = t.port
          /\ root' = t.root
          /\ sched' = Reacted(SenderView, t, "set_state")
    /\ UNCHANGED <<appPc, onmessage>>
    /\ UNCHANGED domVars

\* The closure of react_on_message, lib.rs 208-210: a queued message is
\* delivered and handler() starts the render_walk of the root manager.
Deliver ==
    /\ appPc = "idle"
    /\ onmessage
    /\ port > 0
    /\ sched.passes < MaxPasses
    /\ port' = port - 1
    /\ root' = RootRenderWalk(root)
    /\ appPc' = "handling"
    /\ sched' = [sched EXCEPT !.wakes = sched.wakes + 1,
                              !.passes = sched.passes + 1,
                              !.inPass = FALSE,
                              !.pending = FALSE,
                              !.last = "deliver"]
    /\ UNCHANGED <<is_queued, onmessage>>
    /\ UNCHANGED domVars

\* The closure of react_on_message, lib.rs 209-213: handler() returned, the
\* flag is reset ("Unblock the queue").
HandlerOk ==
    /\ appPc = "handling"
    /\ is_queued' = FALSE
    /\ appPc' = "idle"
    /\ sched' = [sched EXCEPT !.last = "handler_ok"]
    /\ UNCHANGED <<port, onmessage, root>>
    /\ UNCHANGED domVars

\* The handler of App::mount, lib.rs 161-165: render_walk returned Err and
\* unwrap panics inside the closure; line 212 is not reached.
HandlerErr ==
    /\ appPc = "handling"
    /\ appPc' = "panicked"
    /\ sched' = [sched EXCEPT !.last = "handler_err"]
    /\ UNCHANGED <<is_queued, port, onmessage, root>>
    /\ UNCHANGED domVars

SchedNext ==
    \/ Mount
    \/ FirstRenderOk
    \/ FirstRenderErr
    \/ DoReact
    \/ SetState
    \/ Deliver
    \/ HandlerOk
    \/ HandlerErr


(***************************************************************************)
(* Component wrapper: src/dom_ruukh/src/vcomponent.rs                      *)
(***************************************************************************)
\* A patch involves two wrappers, self and old: two slots hold them.
Slots == {1, 2}
\* Component types whose render holds no component (as Button, vcomponent.rs
\* 255-262).
Types == {"A", "B"}
\* A component type whose render holds one nested component of type ChildType,
\* and the slot of that nested component's wrapper (the rendered tree owns it).
ParentType == "P"
ChildType == "A"
NestSlot == Cardinality(Slots) + 1
AllSlots == Slots \cup {NestSlot}
PropVals == {FALSE, TRUE}
StateVals == {"s0", "s1"}
DefaultState == "s0"

\* ComponentWrapper before new() fills the slot / after the owner dropped it.
\* removed: remove has been called on the wrapper.
Blank ==
    [live |-> FALSE, ctype |-> "A", component |-> {}, props |-> {}, cached_render |-> {},
     removed |-> FALSE]

\* ComponentWrapper::new, vcomponent.rs 30-36.
new(t, p) ==
    [live |-> TRUE, ctype |-> t, component |-> {}, props |-> Some(p), cached_render |-> {},
     removed |-> FALSE]

\* COMP::init(props, ComponentStatus::new(COMP::State::default())), as the test
\* component Button does it (vcomponent.rs 229-234): the props are stored, the
\* state is the default, nothing is dirty and no hook has fired (old_props:
\* what the updated hook was last called with).
init(t, p) ==
    [ctype |-> t, props |-> p, state |-> DefaultState, pending |-> DefaultState,
     state_dirty |-> FALSE, props_dirty |-> FALSE,
     created |-> 0, updated |-> 0, destroyed |-> 0, old_props |-> {}]

\* Render::render of instance i of world W, vcomponent.rs 255-262: the markup
\* is a function of the instance's props (and committed state).  id is the
\* document node of the tree: 0 until a patch gives it one.
Render(W, i) ==
    [id |-> 0, inst |-> i, tag |-> W.inst[i].ctype, props |-> W.inst[i].props,
     st |-> W.inst[i].state]

Emit(W, e, i) == [W EXCEPT !.log = Append(@, [ev |-> e, inst |-> i])]

\* KeyedVNodes::patch (dom.rs is absent): with an old tree whose node is in
\* the document the new tree takes that node over, otherwise it gets a node of
\* its own.  Patched is the new tree once patched, VNodePatch the document.
HasNode(d, old) == old # {} /\ \E k \in 1..Len(d) : d[k].id = Unwrap(old).id
NewId(d) == IF d = <<>> THEN 1
            ELSE 1 + (CHOOSE m \in {d[k].id : k \in 1..Len(d)} :
                        \A k \in 1..Len(d) : d[k].id <= m)
Patched(d, old, n) ==
    [n EXCEPT !.id = IF HasNode(d, old) THEN Unwrap(old).id ELSE NewId(d)]
VNodePatch(d, old, n) ==
    IF HasNode(d, old)
    THEN [k \in 1..Len(d) |-> IF d[k].id = Unwrap(old).id THEN Patched(d, old, n) ELSE d[k]]
    ELSE Append(d, Patched(d, old, n))

\* KeyedVNodes::remove (dom.rs is absent): the tree's node leaves the parent.
VNodeRemove(d, n) == SelectSeq(d, LAMBDA x : x.id # n.id)

\* Component::update(new_props) (component.rs is absent): the props are
\* replaced; the old ones are returned when they differed.
update(W, i, p) ==
    IF W.inst[i].props # p
    THEN [Emit(W, "update", i) EXCEPT !.inst[i].props = p, !.inst[i].props_dirty = TRUE,
                                      !.ret = Some(W.inst[i].props)]
    ELSE [Emit(W, "update", i) EXCEPT !.ret = {}]

\* Lifecycle hooks (component.rs is absent): each call is counted; updated is
\* handed the old props.
created(W, i) == Emit([W EXCEPT !.inst[i].created = @ + 1], "created", i)
updated(W, i, old_props) ==
    Emit([W EXCEPT !.inst[i].updated = @ + 1, !.inst[i].old_props = Some(old_props)],
         "updated", i)
destroyed(W, i) == Emit([W EXCEPT !.inst[i].destroyed = @ + 1], "destroyed", i)

\* The type identities try_cast compares, vcomponent.rs 43-44: `&other as &Any`
\* with other: Box<ComponentManager> is the Any of the box itself, and
\* any.is::<ComponentWrapper<COMP>>() compares the box's type with the
\* wrapper type of self's COMP.
TypeIdOfBox == <<"Box", "ComponentManager">>
TypeIdOfWrapper(t) == <<"ComponentWrapper", t>>

\* ComponentWrapper::try_cast, vcomponent.rs 38-57: Ok (TRUE) when the Any
\* taken at line 43 is a ComponentWrapper<COMP>.  It is the box's, whatever
\* wrapper the box holds, so the cast fails also for a wrapper of the same COMP.
try_cast(a, b) == TypeIdOfBox = TypeIdOfWrapper(a.ctype)

\* A remove that forgets the destroyed hook.
remove_NoDestroyed(W, w, ok) ==
    IF W.wr[w].cached_render # {}
    THEN LET c == Unwrap(W.wr[w].cached_render)
             W1 == [W EXCEPT !.wr[w].cached_render = {}]
         IN IF ~ok THEN [W1 EXCEPT !.res = "Err"]
            ELSE [Emit([W1 EXCEPT !.dom = VNodeRemove(@, c)], "dom_remove", c.inst)
                    EXCEPT !.res = "Ok"]
    ELSE [W EXCEPT !.res = "Ok"]

\* A remove that reads the cached render without taking it.
remove_KeepCache(W, w, ok) ==
    IF W.wr[w].cached_render # {}
    THEN LET c == Unwrap(W.wr[w].cached_render)
         IN IF ~ok THEN [W EXCEPT !.res = "Err"]
            ELSE [destroyed(Emit([W EXCEPT !.dom = VNodeRemove(@, c)],
                                 "dom_remove", c.inst),
                            Unwrap(W.wr[w].component))
                    EXCEPT !.res = "Ok"]
    ELSE [W EXCEPT !.res = "Ok"]

\* ComponentManager::remove, vcomponent.rs 158-165.  ok: whether the document
\* primitive under cached_render.remove succeeds.
remove(W, w, ok) ==
    IF W.wr[w].cached_render # {}
    THEN LET c == Unwrap(W.wr[w].cached_render)
             W1 == [W EXCEPT !.wr[w].cached_render = {}]
         IN IF ~ok THEN [W1 EXCEPT !.res = "Err"]
            ELSE IF W1.wr[w].component = {} THEN [W1 EXCEPT !.res = "panic"]
            ELSE [destroyed(Emit([W1 EXCEPT !.dom = VNodeRemove(@, c)],
                                 "dom_remove", c.inst),
                            Unwrap(W1.wr[w].component))
                    EXCEPT !.res = "Ok"]
    ELSE [W EXCEPT !.res = "Ok"]

\* ComponentManager::node, vcomponent.rs 167-169.
node(x) == IF x.cached_render = {} THEN {} ELSE Some(Unwrap(x.cached_render).id)


\* Component::is_state_dirty / refresh_state / is_props_dirty (component.rs is
\* absent): the status flags of the instance; refresh_state commits the pending
\* state and tells whether it changed, is_props_dirty hands the flag over.
is_state_dirty(c) == c.state_dirty
refresh_state(c) == [c EXCEPT !.state = c.pending, !.state_dirty = FALSE]
state_differs(c) == c.pending # c.state
is_props_dirty(c) == c.props_dirty

\* A render_walk body that re-renders a mounted component whether dirty or not.
render_decision_Always(state_changed, c) == TRUE

\* vcomponent.rs 119: `state_changed || comp.borrow_mut().is_props_dirty()`.
render_decision(state_changed, c) == state_changed \/ is_props_dirty(c)

\* A first render that fires created twice.
first_render_CreatedTwice(W, w, ok) ==
    LET i == Len(W.inst) + 1
        W1 == [W EXCEPT !.wr[w].props = {},
                        !.inst = Append(@, init(W.wr[w].ctype, Unwrap(W.wr[w].props)))]
        W2 == created(created(Emit(W1, "init", i), i), i)
        W3 == Emit(W2, "render", i)
    IN [Emit([W3 EXCEPT !.dom = VNodePatch(@, {}, Render(W3, i)),
                        !.wr[w].component = Some(i),
                        !.wr[w].cached_render = Some(Patched(W3.dom, {}, Render(W3, i)))],
             "dom_patch", i)
          EXCEPT !.res = IF ok THEN "Ok" ELSE "Err"]

\* A first render that fires created only after the render was patched in.
first_render_CreatedLate(W, w, ok) ==
    IF W.wr[w].props = {} THEN [W EXCEPT !.res = "panic"]
    ELSE LET i == Len(W.inst) + 1
             W1 == [W EXCEPT !.wr[w].props = {},
                             !.inst = Append(@, init(W.wr[w].ctype, Unwrap(W.wr[w].props)))]
             W3 == Emit(Emit(W1, "init", i), "render", i)
             n == Render(W3, i)
         IN IF ~ok THEN [W3 EXCEPT !.res = "Err"]
            ELSE [created(Emit([W3 EXCEPT !.dom = VNodePatch(@, {}, n),
                                          !.wr[w].component = Some(i),
                                          !.wr[w].cached_render = Some(Patched(W3.dom, {}, n))],
                               "dom_patch", i), i)
                    EXCEPT !.res = "Ok"]

\* render_walk, vcomponent.rs 102-109: the branch of a wrapper without a
\* component.  The props are taken, the instance is built, created fires, the
\* first render is patched into the document and, if that succeeded, instance
\* and render are stored.
first_render(W, w, ok) ==
    IF W.wr[w].props = {} THEN [W EXCEPT !.res = "panic"]
    ELSE LET i == Len(W.inst) + 1
             W1 == [W EXCEPT !.wr[w].props = {},
                             !.inst = Append(@, init(W.wr[w].ctype, Unwrap(W.wr[w].props)))]
             W2 == created(Emit(W1, "init", i), i)
             W3 == Emit(W2, "render", i)
             n == Render(W3, i)
         IN IF ~ok THEN [W3 EXCEPT !.res = "Err"]
            ELSE [Emit([W3 EXCEPT !.dom = VNodePatch(@, {}, n),
                                  !.wr[w].component = Some(i),
                                  !.wr[w].cached_render = Some(Patched(W3.dom, {}, n))],
                       "dom_patch", i)
                    EXCEPT !.res = "Ok"]

\* A re-render that patches the document although the primitive failed.
rerender_PatchOnErr(W, w, ok) ==
    LET i == Unwrap(W.wr[w].component)
        c == W.inst[i]
        state_changed == IF is_state_dirty(c) THEN state_differs(c) ELSE FALSE
        c1 == IF is_state_dirty(c) THEN refresh_state(c) ELSE c
        c2 == IF state_changed THEN c1 ELSE [c1 EXCEPT !.props_dirty = FALSE]
        W1 == [W EXCEPT !.inst[i] = c2]
    IN IF render_decision(state_changed, c)
       THEN LET W2 == Emit(W1, "render", i)
                n == Render(W2, i)
                cached_render == W2.wr[w].cached_render
                W3 == [W2 EXCEPT !.wr[w].cached_render = {}]
            IN IF ~ok THEN [W3 EXCEPT !.dom = VNodePatch(@, cached_render, n),
                                      !.res = "Err"]
               ELSE [Emit([W3 EXCEPT !.dom = VNodePatch(@, cached_render, n),
                                     !.wr[w].cached_render =
                                         Some(Patched(W3.dom, cached_render, n))],
                          "dom_patch", i)
                       EXCEPT !.res = "Ok"]
       ELSE [W1 EXCEPT !.res = "Ok"]

\* render_walk, vcomponent.rs 110-125: the branch of a wrapper with a
\* component.  A dirty state is refreshed; if the state changed or the props
\* are dirty the component is rendered again and patched against the cached
\* render, which is taken out of the wrapper for the time of the patch.
rerender(W, w, ok) ==
    LET i == Unwrap(W.wr[w].component)
        c == W.inst[i]
        state_changed == IF is_state_dirty(c) THEN state_differs(c) ELSE FALSE
        c1 == IF is_state_dirty(c) THEN refresh_state(c) ELSE c
        c2 == IF state_changed THEN c1 ELSE [c1 EXCEPT !.props_dirty = FALSE]
        W1 == [W EXCEPT !.inst[i] = c2]
    IN IF render_decision(state_changed, c)
       THEN LET W2 == Emit(W1, "render", i)
                n == Render(W2, i)
                cached_render == W2.wr[w].cached_render
                W3 == [W2 EXCEPT !.wr[w].cached_render = {}]
            IN IF ~ok THEN [W3 EXCEPT !.res = "Err"]
               ELSE [Emit([W3 EXCEPT !.dom = VNodePatch(@, cached_render, n),
                                     !.wr[w].cached_render =
                                         Some(Patched(W3.dom, cached_render, n))],
                          "dom_patch", i)
                       EXCEPT !.res = "Ok"]
       ELSE [W1 EXCEPT !.res = "Ok"]

\* render_walk, vcomponent.rs 102-109, for a component whose render holds a
\* nested component.  initial_render.patch (107; dom.rs is absent) puts the
\* element into the document (ok: whether that succeeds) and patches the
\* nested VComponent with no old one: vcomponent.rs 67-74 and 129-155, which
\* for old = None is the nested wrapper's render_walk.  That call does its
\* first render and then, at line 126, calls itself on a clean mounted wrapper
\* until the stack is exhausted: line 107 does not return, and 108-109 of the
\* outer wrapper are not reached.
first_render_nested(W, w, ok) ==
    IF W.wr[w].props = {} THEN [W EXCEPT !.res = "panic"]
    ELSE LET i == Len(W.inst) + 1
             p == Unwrap(W.wr[w].props)
             W1 == [W EXCEPT !.wr[w].props = {},
                             !.inst = Append(@, init(W.wr[w].ctype, p))]
             W2 == created(Emit(W1, "init", i), i)
             W3 == Emit(W2, "render", i)
             n == Render(W3, i)
         IN IF ~ok THEN [W3 EXCEPT !.res = "Err"]
            ELSE LET W4 == Emit([W3 EXCEPT !.dom = VNodePatch(@, {}, n),
                                           !.wr[NestSlot] = new(ChildType, p)],
                                "dom_patch", i)
                     W5 == first_render(W4, NestSlot, TRUE)
                 IN [W5 EXCEPT !.res = IF W5.res = "Ok" THEN "trap" ELSE W5.res]

\* One invocation of ComponentManager::render_walk, vcomponent.rs 101-125, up
\* to the call of line 126.  res = "Ok" means line 126 is reached.  What the
\* first render patches in depends on the component's render: a tree without or
\* with a nested component.
render_walk(W, w, ok) ==
    IF W.wr[w].component = {}
    THEN IF W.wr[w].ctype = ParentType THEN first_render_nested(W, w, ok)
         ELSE first_render(W, w, ok)
    ELSE rerender(W, w, ok)

\* patch, vcomponent.rs 144-147: the old component and its cached render move
\* into the new wrapper.
reuse(W, self, same, comp) ==
    [W EXCEPT !.wr[self].component = Some(comp),
              !.wr[self].cached_render = same.cached_render]

\* ComponentManager::patch, vcomponent.rs 135-154, up to the call of
\* render_walk at line 155.  old is an Option of a slot; the old wrapper is
\* moved into the call and dropped by it.  res = "Ok" means line 155 is reached.
patch(W, self, old, ok) ==
    IF old = {} THEN [W EXCEPT !.res = "Ok"]
    ELSE LET o == Unwrap(old)
         IN IF try_cast(W.wr[self], W.wr[o])
            THEN LET same == W.wr[o]
                     W0 == [W EXCEPT !.wr[o] = Blank]
                 IN IF same.component = {} \/ W0.wr[self].props = {}
                    THEN [W0 EXCEPT !.res = "panic"]
                    ELSE LET comp == Unwrap(same.component)
                             W1 == update([W0 EXCEPT !.wr[self].props = {}], comp,
                                          Unwrap(W.wr[self].props))
                             W2 == IF W1.ret # {} THEN updated(W1, comp, Unwrap(W1.ret))
                                   ELSE W1
                         IN [reuse(W2, self, same, comp) EXCEPT !.res = "Ok"]
            ELSE [remove(W, o, ok) EXCEPT !.wr[o] = Blank]


(***************************************************************************)
(* The host driving the wrapper protocol.  A call runs to its end before   *)
(* the next one starts (single-threaded).  A call ends with Ok, with Err   *)
(* (a document primitive failed), with a panic (an unwrap of None) or when *)
(* the nested render_walk invocations exhaust the call stack ("trap"); on  *)
(* the wasm target a trap hands control back to the host and the           *)
(* wrapper's fields keep what was written before it.  op records the call  *)
(* and what held when it was made: kind (how old relates to self), pre     *)
(* (self was fresh and old, if any, mounted), oldInst, oldNode, props0.    *)
(***************************************************************************)
World == [wr |-> wr, inst |-> inst, dom |-> dom, log |-> log, res |-> "Ok", ret |-> {}]

Commit(W) ==
    /\ wr' = W.wr
    /\ inst' = W.inst
    /\ dom' = W.dom
    /\ log' = W.log

Fresh(x) == x.live /\ x.component = {} /\ x.props # {}
Mounted(x) == x.live /\ x.component # {} /\ x.cached_render # {}

IdleOp ==
    [seq |-> 0, call |-> "none", self |-> 0, running |-> FALSE, depth |-> 0,
     result |-> "none", kind |-> "none", pre |-> FALSE, oldInst |-> {}, oldNode |-> {}, props0 |-> {}]

DomInit ==
    /\ wr = [w \in AllSlots |-> Blank]
    /\ inst = <<>>
    /\ dom = <<>>
    /\ op = IdleOp
    /\ log = <<>>

\* The op record after the part of a call before its render_walk ended with r.
Entered(o, r) ==
    IF r = "Ok" THEN [o EXCEPT !.running = TRUE, !.depth = 0, !.result = "none"]
    ELSE [o EXCEPT !.running = FALSE, !.depth = 0, !.result = r]

\* VComponent::new, vcomponent.rs 18-20 and 30-36: the host builds a wrapper
\* for component type t with props p in the first free slot.
NewWrapper ==
    /\ ~op.running
    /\ \E w \in Slots, t \in Types, p \in PropVals :
         /\ ~wr[w].live
         /\ \A v \in Slots : v < w => wr[v].live
         /\ wr' = [wr EXCEPT ![w] = new(t, p)]
    /\ UNCHANGED <<inst, dom, op, log>>
    /\ UNCHANGED schedVars

\* VComponent::new for a component whose render nests another component
\* (vcomponent.rs 18-20, 30-36); one such wrapper per run.
NewParent ==
    /\ ~op.running
    /\ ~wr[NestSlot].live
    /\ \A v \in Slots : wr[v].ctype # ParentType
    /\ \E w \in Slots, p \in PropVals :
         /\ ~wr[w].live
         /\ \A v \in Slots : v < w => wr[v].live
         /\ wr' = [wr EXCEPT ![w] = new(ParentType, p)]
    /\ UNCHANGED <<inst, dom, op, log>>
    /\ UNCHANGED schedVars

\* The host calls patch(old, parent, next) on a wrapper: vcomponent.rs 67-74
\* and 129-154.  A wrapper on which remove was called is gone (VComponent's
\* remove, vcomponent.rs 76-78, consumes it) and is neither patched nor handed
\* in as old.
CallPatch ==
    /\ ~op.running
    /\ op.seq < MaxCalls
    /\ \E self \in Slots, old \in {{}} \cup {{o} : o \in Slots}, ok \in BOOLEAN :
         /\ wr[self].live /\ ~wr[self].removed
         /\ old # {self}
         /\ old # {} => (wr[Unwrap(old)].live /\ ~wr[Unwrap(old)].removed)
         /\ (old = {} \/ wr[Unwrap(old)].cached_render = {}) => ok
         /\ LET W == patch([World EXCEPT !.log = <<>>], self, old, ok)
                kind == IF old = {} THEN "fresh"
                        ELSE IF wr[self].ctype = wr[Unwrap(old)].ctype THEN "same"
                        ELSE "diff"
            IN /\ Commit(W)
               /\ op' = Entered([seq |-> op.seq + 1, call |-> "patch", self |-> self,
                                 running |-> FALSE, depth |-> 0, result |-> "none",
                                 kind |-> kind,
                                 pre |-> /\ Fresh(wr[self])
                                         /\ old # {} => Mounted(wr[Unwrap(old)]),
                                 oldInst |-> IF old = {} THEN {}
                                             ELSE wr[Unwrap(old)].component,
                                 oldNode |-> IF old = {} THEN {}
                                             ELSE node(wr[Unwrap(old)]),
                                 props0 |-> wr[self].props],
                                W.res)
    /\ UNCHANGED schedVars

\* The host calls render_walk(parent, next) on a wrapper that was not removed:
\* vcomponent.rs 63-65 and 101.
CallRenderWalk ==
    /\ ~op.running
    /\ op.seq < MaxCalls
    /\ \E self \in Slots :
         /\ wr[self].live /\ ~wr[self].removed
         /\ op' = [seq |-> op.seq + 1, call |-> "render_walk", self |-> self,
                   running |-> TRUE, depth |-> 0, result |-> "none",
                   kind |-> IF wr[self].component = {} THEN "fresh" ELSE "again",
                   pre |-> Fresh(wr[self]) \/ Mounted(wr[self]),
                   oldInst |-> {}, oldNode |-> {}, props0 |-> wr[self].props]
    /\ log' = <<>>
    /\ UNCHANGED <<wr, inst, dom>>
    /\ UNCHANGED schedVars

\* One invocation of render_walk on the wrapper of the running call:
\* vcomponent.rs 101-126.  Line 126 calls render_walk on self again, so a
\* body that does not fail is followed by the next invocation.
RenderWalkStep ==
    /\ op.running
    /\ op.depth < StackLimit
    /\ \E ok \in BOOLEAN :
         LET W == render_walk(World, op.self, ok)
         IN /\ W.log # log \/ ok
            /\ Commit(W)
            /\ op' = IF W.res = "Ok"
                     THEN [op EXCEPT !.depth = op.depth + 1]
                     ELSE [op EXCEPT !.running = FALSE, !.result = W.res]
    /\ UNCHANGED schedVars

\* vcomponent.rs 126: the invocations of render_walk on self have used up the
\* call stack.
StackOverflow ==
    /\ op.running
    /\ op.depth = StackLimit
    /\ op' = [op EXCEPT !.running = FALSE, !.result = "trap"]
    /\ UNCHANGED <<wr, inst, dom, log>>
    /\ UNCHANGED schedVars

\* remove(parent) is called on a wrapper: vcomponent.rs 76-78 and 158-165.
\* The trait method takes &mut self, so it can be called on a wrapper again.
CallRemove ==
    /\ ~op.running
    /\ op.seq < MaxCalls
    /\ \E self \in Slots, ok \in BOOLEAN :
         /\ wr[self].live
         /\ wr[self].cached_render = {} => ok
         /\ LET W0 == remove([World EXCEPT !.log = <<>>], self, ok)
                W == [W0 EXCEPT !.wr[self].removed = TRUE]
            IN /\ Commit(W)
               /\ op' = [seq |-> op.seq + 1, call |-> "remove", self |-> self,
                         running |-> FALSE, depth |-> 0, result |-> W.res,
                         kind |-> IF wr[self].cached_render = {} THEN "unrendered"
                                  ELSE "rendered",
                         pre |-> TRUE, oldInst |-> wr[self].component,
                         oldNode |-> node(wr[self]),
                         props0 |-> wr[self].props]
    /\ UNCHANGED schedVars

\* A state setter of a live component instance (component.rs is absent): the
\* new state is pending and the state is marked dirty.
SetComponentState ==
    /\ ~op.running
    /\ \E w \in Slots, v \in StateVals :
         /\ wr[w].live
         /\ wr[w].component # {}
         /\ LET i == Unwrap(wr[w].component)
            IN inst' = [inst EXCEPT ![i].pending = v, ![i].state_dirty = TRUE]
    /\ UNCHANGED <<wr, dom, op, log>>
    /\ UNCHANGED schedVars

DomNext ==
    \/ NewWrapper
    \/ CallPatch
    \/ CallRenderWalk
    \/ RenderWalkStep
    \/ StackOverflow
    \/ CallRemove
    \/ SetComponentState

(***************************************************************************)
(* Specifications.                                                         *)
(***************************************************************************)
Init == SchedInit /\ DomInit

\* The scheduler of lib.rs.
SchedSpec == Init /\ [][SchedNext]_vars

\* The component wrapper of vcomponent.rs.
DomSpec == Init /\ [][DomNext]_vars

\* The wrapper protocol with a component whose render nests a component.
NestNext ==
    \/ DomNext
    \/ NewParent

NestSpec == Init /\ [][NestNext]_vars

\* The repository as a whole: a run exercises the app scheduler of lib.rs or
\* the wrapper protocol of vcomponent.rs (lib.rs drives the managers of another
\* crate, so the two halves share no state).
Next ==
    \/ SchedNext /\ (\A w \in Slots : ~wr[w].live)
    \/ DomNext /\ appPc = "new"

Spec == Init /\ [][Next]_vars

\* The scheduler under the event loop's scheduling: a message posted on the
\* port is delivered to the installed closure (lib.rs 206-219), and a call
\* that started (the first render of mount, the handler) comes to its end.
FairSchedSpec ==
    /\ Init
    /\ [][SchedNext]_vars
    /\ WF_vars(Deliver)
    /\ WF_vars(HandlerOk \/ HandlerErr)
    /\ WF_vars(FirstRenderOk \/ FirstRenderErr)

(***************************************************************************)
(* Properties of the scheduler (SchedSpec).                                *)
(***************************************************************************)

\* C1: while every do_react call so far (k >= 1 of them) was made before any
\* wake-up handler ran, exactly one message has been posted, and that message
\* is either still queued or has started exactly one handler pass.
C1_Coalescing ==
    (sched.reacts >= 1 /\ sched.late = 0) =>
        /\ sched.posted = 1
        /\ sched.wakes + port = 1

\* k = 2 or more calls before the first wake-up, and the one pass has run.
C1_Witness ==
    /\ sched.reacts >= 2
    /\ sched.late = 0
    /\ sched.wakes = 1
    /\ appPc = "idle"
    /\ port = 0

\* C2: once do_react has been called during the handler's render pass, one
\* wake-up message is queued for a further pass (until that pass starts).
C2_NotifyDuringRender ==
    sched.inPass => port = 1

\* C9: at most one wake-up message is queued, and a queued message implies
\* that is_queued is true.
C9_AtMostOneQueued ==
    /\ port <= 1
    /\ port >= 1 => is_queued

\* A message is queued after several do_react calls and an earlier delivery.
C9_Witness ==
    /\ port = 1
    /\ is_queued
    /\ sched.reacts >= 3
    /\ sched.wakes >= 1

\* C10: a do_react call changes nothing but is_queued and the port (no
\* wrapper, cached render or document state, no render pass); after mount a
\* render pass starts only with the delivery of a queued message, and the root
\* is rendered only in a step that starts a pass.
C10_NoSyncRender ==
    [][ /\ (sched'.last = "do_react" /\ sched'.reacts = sched.reacts + 1) =>
            /\ root' = root
            /\ appPc' = appPc
            /\ onmessage' = onmessage
            /\ sched'.passes = sched.passes
            /\ domVars' = domVars
        /\ (appPc # "new" /\ sched'.passes # sched.passes) =>
            /\ port' = port - 1
            /\ sched'.wakes = sched.wakes + 1
            /\ appPc = "idle" /\ appPc' = "handling"
        /\ root'.renders # root.renders => sched'.passes = sched.passes + 1
      ]_vars

\* do_react was just called on a mounted app whose root is dirty: the message
\* is queued and the root has not been rendered.
C10_Witness ==
    /\ sched.last = "do_react"
    /\ appPc = "idle"
    /\ root.mounted /\ root.dirty
    /\ port = 1

\* C11: every do_react call is eventually followed by a render pass from the
\* root that starts after the call (sched.pending: a call was made and no pass
\* has started since), as long as the app has not panicked and the bound on
\* passes leaves room for one.
C11_NoNotificationLost ==
    (sched.pending /\ sched.passes < MaxPasses /\ appPc # "panicked")
        ~> (~sched.pending \/ appPc = "panicked")

\* C19: whenever is_queued is true, a wake-up message is queued on the port or
\* the wake-up handler is running.
C19_QueuedFlagBacked ==
    is_queued => (port >= 1 \/ appPc = "handling")

\* C20: the first render of mount runs before the handler is registered and
\* before any wake-up; once do_react was called during that first render, one
\* message waits on the port until the handler is installed and it is
\* delivered, and as long as no call was made after that delivery the calls
\* have led to exactly one message and so to at most one pass after the first
\* render; every delivery starts one pass.
C20_MountOrdering ==
    /\ appPc = "first_render" =>
         /\ ~onmessage
         /\ root.mounted
         /\ sched.passes = 1 /\ sched.wakes = 0
    /\ onmessage => (root.renders >= 1 /\ appPc \in {"idle", "handling", "panicked"})
    /\ sched.passes = sched.wakes + (IF appPc = "new" THEN 0 ELSE 1)
    /\ sched.first >= 1 =>
         /\ sched.wakes = 0 => (port = 1 /\ is_queued)
         /\ sched.late = 0 =>
              /\ sched.posted = 1
              /\ sched.wakes + port = 1

\* do_react was called during the first render, twice, and not since; the
\* handler was installed, the one message delivered, and the pass it started
\* has ended.
C20_Witness ==
    /\ sched.first = 2
    /\ sched.reacts = 2
    /\ onmessage
    /\ sched.wakes = 1
    /\ sched.passes = 2
    /\ appPc = "idle"
    /\ port = 0 /\ ~is_queued

(***************************************************************************)
(* Properties of the component wrapper (DomSpec).                          *)
(***************************************************************************)
Events(e) == {k \in 1..Len(log) : log[k].ev = e}
EventsOf(e, i) == {k \in 1..Len(log) : log[k] = [ev |-> e, inst |-> i]}
InDom(n) == \E k \in 1..Len(dom) : dom[k].id = n
Returned == ~op.running /\ op.result # "none"

\* C3: in a patch of a fresh wrapper against a mounted old wrapper of the same
\* component type, the new wrapper holds the old wrapper's instance, no
\* instance is built by init, and neither created nor destroyed fires.
C3_SameTypeReuse ==
    (op.call = "patch" /\ op.kind = "same" /\ op.pre) =>
        /\ wr[op.self].component = op.oldInst
        /\ Events("init") = {}
        /\ Events("created") = {}
        /\ Events("destroyed") = {}
        /\ op.result # "panic"

\* C4: in a patch of a fresh wrapper against a mounted old wrapper of another
\* component type: updated never fires; the old component's destroyed fires at
\* most once, after its subtree left the document, and exactly once before any
\* instance is built; the new instance is not the old one, is built from the
\* new wrapper's own props with default state, and its created hook fires
\* exactly once.
C4_DiffTypeReplace ==
    (op.call = "patch" /\ op.kind = "diff" /\ op.pre) =>
        LET old == Unwrap(op.oldInst)
        IN /\ Events("updated") = {}
           /\ Cardinality(EventsOf("destroyed", old)) <= 1
           /\ Events("destroyed") = EventsOf("destroyed", old)
           /\ \A k \in EventsOf("destroyed", old) :
                /\ \A x \in 1..Len(dom) :
                     ~(dom[x].inst = old /\ dom[x].id \in op.oldNode)
                /\ \E j \in EventsOf("dom_remove", old) : j < k
           /\ \A k \in Events("init") :
                \E j \in EventsOf("destroyed", old) : j < k
           /\ Cardinality(Events("created")) <= 1
           /\ Cardinality(Events("init")) <= 1
           /\ wr[op.self].component \cap op.oldInst = {}
           /\ (op.running \/ op.result = "Ok") =>
                Cardinality(EventsOf("destroyed", old)) = 1
           /\ \A n \in wr[op.self].component :
                /\ EventsOf("created", n) # {}
                /\ \A k \in EventsOf("created", n) :
                     \E j \in EventsOf("init", n) : j < k
                /\ inst[n].created = 1
                /\ inst[n].updated = 0
                /\ inst[n].destroyed = 0
                /\ inst[n].ctype = wr[op.self].ctype
                /\ Some(inst[n].props) = op.props0
                /\ inst[n].state = DefaultState
           /\ op.result # "panic"

\* A component of type A was replaced by one of type B and the call ran until
\* the recursion trapped.
C4_Witness ==
    /\ op.call = "patch" /\ op.kind = "diff" /\ op.pre
    /\ op.result = "trap"
    /\ wr[op.self].component # {}
    /\ Len(dom) = 1

\* C5: mounting a fresh wrapper (patch with no old wrapper, or render_walk):
\* updated never fires and created fires at most once; once the first
\* invocation is through, the events are exactly init, created, render, insert
\* for one instance, which was built from the wrapper's stored props with
\* default state, whose created count is 1, and whose render is cached.
C5_FreshMount ==
    (op.kind = "fresh" /\ op.pre) =>
        /\ Events("updated") = {}
        /\ Cardinality(Events("created")) <= 1
        /\ op.result # "panic"
        /\ (op.depth >= 1 \/ op.result = "trap") =>
             /\ wr[op.self].component # {}
             /\ LET n == Unwrap(wr[op.self].component)
                IN /\ log = << [ev |-> "init", inst |-> n],
                               [ev |-> "created", inst |-> n],
                               [ev |-> "render", inst |-> n],
                               [ev |-> "dom_patch", inst |-> n] >>
                   /\ inst[n].created = 1
                   /\ inst[n].updated = 0
                   /\ Some(inst[n].props) = op.props0
                   /\ inst[n].state = DefaultState
                   /\ \E k \in 1..Len(dom) :
                        /\ wr[op.self].cached_render = Some(dom[k])
                        /\ dom[k] = [Render(World, n) EXCEPT !.id = dom[k].id]
                   /\ wr[op.self].props = {}

\* patch(None, ..) on a fresh wrapper got through its first render.
C5_Witness ==
    /\ op.call = "patch" /\ op.kind = "fresh" /\ op.pre
    /\ op.depth >= 1
    /\ wr[op.self].cached_render # {}

Clean(w) ==
    \A i \in wr[w].component : ~inst[i].state_dirty /\ ~inst[i].props_dirty

\* C6: while render_walk runs on a mounted wrapper whose instance has neither
\* dirty state nor dirty props, no step renders, changes the document, or
\* changes the wrapper (so the cached render stays).
C6_RenderWalkIdempotent ==
    [][ (op.running /\ op.call = "render_walk" /\ Mounted(wr[op.self]) /\ Clean(op.self)) =>
            /\ dom' = dom
            /\ wr' = wr
            /\ log' = log
            /\ inst' = inst
      ]_vars

\* render_walk on a mounted, clean wrapper ran until the recursion trapped
\* and left no event.
C6_Witness ==
    /\ op.call = "render_walk" /\ op.kind = "again" /\ op.pre
    /\ op.result = "trap"
    /\ log = <<>>
    /\ Mounted(wr[op.self])

\* C7: a patch of a fresh wrapper with no old wrapper, or against a mounted old
\* wrapper of the same type, during which no document primitive failed,
\* returns Ok and leaves exactly the render of the new props under the parent.
C7_PatchSucceeds ==
    ( /\ op.call = "patch" /\ op.kind \in {"fresh", "same"} /\ op.pre
      /\ Returned /\ op.result # "Err"
      /\ Len(inst) = 1 ) =>
        /\ op.result = "Ok"
        /\ Len(dom) = 1
        /\ Some(dom[1].props) = op.props0

\* C13: in a render_walk call on a fresh or mounted wrapper the wrapper's own
\* render/patch decision is taken once (the body is not entered again on the
\* same wrapper) and the call does not end by exhausting the stack.
C13_RenderWalkTerminates ==
    (op.call = "render_walk" /\ op.pre) =>
        /\ op.depth <= 1
        /\ op.result # "trap"

\* C14: when a render_walk or patch call on a wrapper that was fresh or
\* mounted (and, for patch, against no or a mounted old wrapper) has ended,
\* with success or with a document failure, the wrapper holds a cached render
\* exactly if it holds a component instance (the component was rendered).
C14_CacheIffRendered ==
    (Returned /\ op.call \in {"render_walk", "patch"} /\ op.pre) =>
        (wr[op.self].cached_render # {} <=> wr[op.self].component # {})

\* C15: no render_walk or patch call aborts on the unwrap of the wrapper's
\* props (vcomponent.rs 103; 141 is never reached, see try_cast): a call that
\* panicked had the props when it was made.
C15_PropsPresent ==
    (op.call \in {"render_walk", "patch"} /\ op.result = "panic") =>
        op.props0 # {}

\* C17: for every component instance, created has fired exactly once, and in
\* the call that built the instance it comes before every render, update,
\* updated and destroyed of that instance and before its node enters the
\* document; destroyed has fired at most once, however often remove was called
\* on the wrapper.
C17_LifecycleOrder ==
    \A i \in 1..Len(inst) :
        /\ inst[i].created = 1
        /\ inst[i].destroyed <= 1
        /\ Cardinality(EventsOf("created", i)) <= 1
        /\ EventsOf("created", i) = {} <=> EventsOf("init", i) = {}
        /\ \A k \in EventsOf("created", i) :
             \A j \in 1..Len(log) :
                (log[j].inst = i /\ log[j].ev \notin {"init", "created"}) => k < j
        /\ Cardinality(EventsOf("destroyed", i)) <= inst[i].destroyed

\* remove was called a second time on a wrapper whose component had been
\* destroyed by the first call: nothing fired.
C17_Witness ==
    /\ op.call = "remove" /\ op.kind = "unrendered"
    /\ op.result = "Ok"
    /\ log = <<>>
    /\ \E i \in op.oldInst : inst[i].destroyed = 1 /\ inst[i].created = 1

\* The case of C18 (remove on a mounted wrapper whose cached subtree holds a
\* nested component) is not reached: a wrapper whose render nests a component
\* never stores its component or its cached render (108-109, 123), because
\* the patch of its tree (107) enters the nested wrapper's render_walk, which
\* does not return Ok (126).  remove on it is always the never-rendered case
\* of 159, so the order of 160-162 for such a wrapper is not observable.
NestedNeverMounted ==
    \A w \in Slots :
        wr[w].ctype = ParentType =>
            /\ wr[w].component = {}
            /\ wr[w].cached_render = {}
            /\ (op.self = w /\ Returned) =>
                    \/ op.result # "Ok"
                    \/ op.call = "remove" /\ op.kind = "unrendered"

\* The events a step adds to the log of the running call.
NewEvents ==
    IF op'.seq # op.seq THEN log' ELSE SubSeq(log', Len(log) + 1, Len(log'))

\* C16: in a patch of a fresh wrapper against a mounted old wrapper of the
\* same type the new props are handed to the old instance's update, which is
\* the first event of the call; updated fires at most once, only when the old
\* props differed from the new ones and with those old props, after update and
\* before any render.
C16_UpdatedHook ==
    (op.call = "patch" /\ op.kind = "same" /\ op.pre) =>
        LET i == Unwrap(op.oldInst)
        IN /\ Some(inst[i].props) = op.props0
           /\ log # <<>>
           /\ log[1] = [ev |-> "update", inst |-> i]
           /\ Cardinality(Events("update")) = 1
           /\ Cardinality(EventsOf("updated", i)) <= 1
           /\ \A k \in EventsOf("updated", i) :
                /\ k = 2
                /\ inst[i].old_props # {}
                /\ inst[i].old_props # op.props0
           /\ \A k \in Events("render") : k > 1 /\ k > Cardinality(EventsOf("updated", i))

\* C12: a step of render_walk, patch or remove in which a document primitive
\* fails ends the call with that failure: the call is no longer running, the
\* document is as before the step, and no hook or document event follows the
\* failed primitive (a failed remove, alone or in a patch, leaves no event at
\* all; a failed render_walk leaves at most init, created and the render that
\* was to be patched); once the call has returned the failure, it does
\* nothing more.  A failure of a root render pass under App::mount ends in a
\* panic, after which no pass starts and the handler registration is as it was.
C12_FailurePropagates ==
    [][ /\ (op'.result = "Err" /\ op' # op) =>
            /\ ~op'.running
            /\ dom' = dom
            /\ \A k \in 1..Len(NewEvents) :
                 NewEvents[k].ev \in {"init", "created", "render"}
            /\ op'.seq # op.seq =>
                 /\ op'.call \in {"patch", "remove"}
                 /\ log' = <<>>
                 /\ inst' = inst
            /\ op'.seq = op.seq =>
                 /\ op.running
                 /\ NewEvents # <<>>
                 /\ NewEvents[Len(NewEvents)].ev = "render"
        /\ (op.result = "Err" /\ op'.seq = op.seq) =>
            /\ op' = op /\ dom' = dom /\ log' = log
        /\ (sched'.last \in {"first_render_err", "handler_err"} /\ sched' # sched) =>
            /\ appPc' = "panicked"
            /\ onmessage' = onmessage
        /\ appPc = "panicked" =>
            /\ appPc' = "panicked"
            /\ sched'.passes = sched.passes
            /\ root'.renders = root.renders
            /\ onmessage' = onmessage
      ]_vars

\* A patch against a mounted wrapper of another type failed in the removal of
\* the old subtree: the old node is still in the document and nothing fired.
C12_Witness ==
    /\ op.call = "patch" /\ op.kind = "diff" /\ op.pre
    /\ op.result = "Err"
    /\ Len(dom) >= 1
    /\ log = <<>>
    /\ wr[op.self].component = {}

\* C8: a remove call on a wrapper without cached render returns Ok, leaves
\* document, instances and wrappers alone and fires no hook; a remove call on a
\* wrapper with cached render drops the cache (node() is None afterwards) and,
\* when the document removal succeeds, takes the subtree out of the document
\* and fires destroyed once.
C8_Remove ==
    [][ (op'.seq = op.seq + 1 /\ op'.call = "remove") =>
          LET w == op'.self
          IN /\ node(wr'[w]) = {}
             /\ IF wr[w].cached_render = {}
                THEN /\ op'.result = "Ok"
                     /\ dom' = dom /\ inst' = inst
                     /\ wr' = [wr EXCEPT ![w].removed = TRUE]
                     /\ log' = <<>>
                ELSE LET i == Unwrap(wr[w].component)
                         n == Unwrap(node(wr[w]))
                     IN op'.result = "Ok" =>
                          /\ InDom(n)
                          /\ dom' = SelectSeq(dom, LAMBDA x : x.id # n)
                          /\ Len(dom') = Len(dom) - 1
                          /\ inst'[i].destroyed = inst[i].destroyed + 1
                          /\ log' = << [ev |-> "dom_remove", inst |-> i],
                                       [ev |-> "destroyed", inst |-> i] >>
      ]_vars

\* remove on a rendered wrapper succeeded: its node left the document.
C8_Witness ==
    /\ op.call = "remove" /\ op.kind = "rendered"
    /\ op.result = "Ok"
    /\ \A x \in 1..Len(dom) : dom[x].inst \notin op.oldInst
    /\ node(wr[op.self]) = {}
    /\ Events("destroyed") # {}

====
